---------------------------- MODULE Spec2Model ----------------------------
(***************************************************************************)
(* Spike GEMM core of snngrow: the thread-level accumulate with one binary *)
(* operand (gemm/thread/mma_spike.h, appended to spike_mma_simt.h), the    *)
(* warp-level SpikeMmaSimt (gemm/warp/spike_mma_simt.h) and the            *)
(* threadblock-level assembler SpikeMma (gemm/threadblock/spike_mma.h).    *)
(***************************************************************************)
EXTENDS Integers, Sequences, FiniteSets, TLC

(***************************************************************************)
(* Bounds of the model.                                                    *)
(***************************************************************************)
\* largest thread-tile extents Shape::kM, Shape::kN, Shape::kK explored
MaxM == 2
MaxN == 2
MaxK == 2
\* largest lane partition Policy::WarpShape::kRow x kColumn explored
MaxLaneRows == 2
MaxLaneColumns == 2
\* largest pipeline depth (template argument Stages) requested
MaxStages == 3
\* largest K extent of a threadblock tile (MmaCore::Shape::kK) and of the problem
MaxTileK == 4
MaxGemmK == 5
\* most warps of a threadblock and most K-tiles in the staging view
MaxWarps == 3
MaxKTiles == 3
\* largest extents of a warp tile (Shape::kM, Shape::kN) requested at build time
MaxWarpM == 4
MaxWarpN == 4
\* largest group_idx passed to the warp-level operator
MaxGroupIdx == 1

VARIABLES
  \* ---- thread level: one call of MmaGeneric<...>::operator()(D, A, B, C)
  shape,      \* Shape: [kM, kN, kK]
  binary,     \* which specialization: "A" (ElementA = bool) or "B" (ElementB = bool)
  layouts,    \* [A, B, C]: LayoutA, LayoutB, LayoutC
  frag_A,     \* FragmentA, flat, 0 .. kM*kK-1
  frag_B,     \* FragmentB, flat, 0 .. kK*kN-1
  frag_C,     \* FragmentC, flat, 0 .. kM*kN-1
  frag_D,     \* FragmentC & D, flat, 0 .. kM*kN-1
  pc,         \* "entry" | "loop" | "done" | "idle"
  loop_k,     \* int k of the outer loop
  loop_n,     \* int n of the middle loop
  loop_m,     \* int m of the inner loop
  visited,    \* history: the (m_serpentine, n, k) triples of the iterations run
  \* ---- warp level: the lanes of one warp running SpikeMmaSimt in lockstep
  warp_cfg,   \* Shape, Policy, element and layout parameters of SpikeMmaSimt
  lane_a,     \* per lane: FragmentA (A of transform, loaded by IteratorA)
  lane_b,     \* per lane: FragmentB (B of transform, loaded by IteratorB)
  lane_c,     \* per lane: FragmentC c
  dst_A,      \* per lane: TransformedFragmentA dst_A
  dst_B,      \* per lane: TransformedFragmentB dst_B
  lane_d,     \* per lane: FragmentC d
  warp_pc,    \* "loaded" | "transformed" | "loop" | "done" | "idle"
  warp_k,     \* the lanes' common loop counters
  warp_n,
  warp_m,
  written,    \* history, per lane: the warp-tile cells the lane has written
  \* ---- build time: one instantiation of threadblock::SpikeMma<...>
  inst,       \* the template arguments
  build,      \* "pending" | "accepted" | "static_assert" | "incomplete_type" | "idle"
  \* ---- run time: SpikeMma::ThreadblockMma over the K extent of one tile
  ml_cfg,             \* tile shape, problem K extent, binary operand, layouts
  glob_A,             \* operand A in global memory, by (row, column)
  glob_B,             \* operand B in global memory, by (row, column)
  src_accum,          \* the accumulators the mainloop starts from
  accum,              \* the running accumulators
  tb_frag_A,          \* the tile of A fetched from global memory
  tb_frag_B,          \* the tile of B fetched from global memory
  smem,               \* the shared-memory stages: slot -> [A, B, tile]
  ml_phase,           \* "prologue" | "steady" | "epilogue" | "done" | "idle"
  ml_step,            \* the step of the phase to run next
  gemm_k_iterations,  \* countdown: K-tiles not yet consumed
  iter_tile,          \* position of IteratorA / IteratorB: tiles fetched so far
  write_stage,        \* the slot the next tile is stored to
  events,             \* history: <<"load" | "compute", tile, phase>>
  touched,            \* history: global elements read, <<operand, row, column>>
  \* ---- run time: the warps of one threadblock sharing the staged tiles
  tb,                 \* [warps, tiles]: the warps and the K-tiles of the launch
  warp_st,            \* warp -> its position in the mainloop and its access
  stage_tile,         \* slot -> warp -> the tile whose part that warp stored, -1: none
  \* ---- build time: SpikeMmaSimt<...> and the thread::Mma<...> it names
  simt_inst,          \* the template arguments of SpikeMmaSimt
  mma_inst,           \* the template arguments of thread::Mma
  simt_build          \* "pending" | "static_assert" | "thread_mma" | the routine selected

threadVars ==
  <<shape, binary, layouts, frag_A, frag_B, frag_C, frag_D,
    pc, loop_k, loop_n, loop_m, visited>>

warpVars ==
  <<warp_cfg, lane_a, lane_b, lane_c, dst_A, dst_B, lane_d,
    warp_pc, warp_k, warp_n, warp_m, written>>

buildVars == <<inst, build>>

mainVars ==
  <<ml_cfg, glob_A, glob_B, src_accum, accum, tb_frag_A, tb_frag_B, smem,
    ml_phase, ml_step, gemm_k_iterations, iter_tile, write_stage, events, touched>>

stagingVars == <<tb, warp_st, stage_tile>>

dispatchVars == <<simt_inst, mma_inst, simt_build>>

vars == <<threadVars, warpVars, buildVars, mainVars, stagingVars, dispatchVars>>

(***************************************************************************)
(* Layouts: LayoutX::packed(extent) and TensorRef::at(coord).              *)
(***************************************************************************)
Layouts == {"RowMajor", "ColumnMajor"}

\* (mutation of Offset: the row-major and column-major formulas exchanged)
Offset_Exchanged(layout, rows, cols, row, col) ==
  IF layout = "RowMajor" THEN col * rows + row ELSE row * cols + col

\* Offset of coordinate (row, col) in a packed rows x cols tensor.
Offset(layout, rows, cols, row, col) ==
  IF layout = "RowMajor" THEN row * cols + col ELSE col * rows + row

\* The layout triples explored: every combination for LayoutA, LayoutB, LayoutC.
LayoutConfigs == [A : Layouts, B : Layouts, C : Layouts]

(***************************************************************************)
(* Fragments: Array<Element, N>, flat storage indexed 0 .. N-1.            *)
(***************************************************************************)
\* Array<bool, n>: every 0/1 fragment
BinFrags(n) == [0 .. n - 1 -> BOOLEAN]

\* numeric fragments explored: element i holds base + step * i
OperandRamps == { <<2, 1>>, <<-3, 2>>, <<1, 0>> }
AccumRamps == { <<0, 0>>, <<10, -1>> }

Ramp(n, r) == [i \in 0 .. n - 1 |-> r[1] + r[2] * i]

NumFrags(n) == { Ramp(n, r) : r \in OperandRamps }
AccumFrags(n) == { Ramp(n, r) : r \in AccumRamps }

\* what an output fragment holds before it is first assigned
StaleFrag(n) == [i \in 0 .. n - 1 |-> -99]
StaleBits(n) == [i \in 0 .. n - 1 |-> TRUE]

(***************************************************************************)
(* arch::Mma<GemmShape<1,1,1>, 1, ...> for a binary operand                *)
(* (arch/mma_spike.h): a predicated add.                                   *)
(***************************************************************************)
MmaOp(bin, a, b, c) ==
  IF bin = "A" THEN (IF a THEN c + b ELSE c)
               ELSE (IF b THEN c + a ELSE c)

(***************************************************************************)
(* MmaGeneric<Shape, bool, ...> and MmaGeneric<Shape, ElementA, LayoutA,   *)
(* bool, ...>: operator()(D, A, B, C).                                     *)
(***************************************************************************)
\* (mutation of CopyAccumulators: the copy "D = C" left out)
CopyAccumulators_Skipped(c, d) == d

\* "D = C": what D holds after the copy, given C and the old D
CopyAccumulators(c, d) == c

\* (mutation of m_serpentine: the parity of m tested instead of that of n)
m_serpentine_ParityOfM(kM, n, m) == IF m % 2 = 1 THEN kM - 1 - m ELSE m

\* (mutation of m_serpentine: the rows in the same order for every column)
m_serpentine_Natural(kM, n, m) == m

\* int m_serpentine = (n % 2) ? (Shape::kM - 1 - m) : m;
m_serpentine(kM, n, m) == IF n % 2 = 1 THEN kM - 1 - m ELSE m

\* (mutation of AccumulatorIn: the step restarts from C instead of reading D)
AccumulatorIn_FromC(c, d, o) == c[o]

\* d[0] = d_ref.at(mn): the accumulator the step starts from, given the
\* fragment C and the fragment D at flat offset o
AccumulatorIn(c, d, o) == d[o]

\* (mutation of LoopCell: the product written without the old accumulator)
LoopCell_Overwrite(sh, bin, lay, a_frag, b_frag, c_frag, d_frag, k, n, ms) ==
  LET mn == Offset(lay.C, sh.kM, sh.kN, ms, n)
      mk == Offset(lay.A, sh.kM, sh.kK, ms, k)
      kn == Offset(lay.B, sh.kK, sh.kN, k, n)
  IN [d_frag EXCEPT ![mn] = MmaOp(bin, a_frag[mk], b_frag[kn], 0)]

\* The loop body for row ms, column n, depth k: D after
\*   d[0] = d_ref.at(mn); a[0] = a_ref.at(mk); b[0] = b_ref.at(kn);
\*   mma_op(d, a, b, d); d_ref.at(mn) = d[0];
LoopCell(sh, bin, lay, a_frag, b_frag, c_frag, d_frag, k, n, ms) ==
  LET mn == Offset(lay.C, sh.kM, sh.kN, ms, n)
      mk == Offset(lay.A, sh.kM, sh.kK, ms, k)
      kn == Offset(lay.B, sh.kK, sh.kN, k, n)
      d  == AccumulatorIn(c_frag, d_frag, mn)
  IN [d_frag EXCEPT ![mn] = MmaOp(bin, a_frag[mk], b_frag[kn], d)]

\* One iteration of the innermost loop at counters (k, n, m): D after it.
LoopBody(sh, bin, lay, a_frag, b_frag, c_frag, d_frag, k, n, m) ==
  LoopCell(sh, bin, lay, a_frag, b_frag, c_frag, d_frag, k, n,
           m_serpentine(sh.kM, n, m))

\* Whether the loop nest "for k < kK, for n < kN, for m < kM" runs its body.
LoopRuns(sh) == 0 < sh.kK /\ 0 < sh.kN /\ 0 < sh.kM

\* The specialization's "D = C" (lines 392 / 530).
DoCopy ==
  /\ pc = "entry"
  /\ frag_D' = CopyAccumulators(frag_C, frag_D)
  /\ pc' = IF LoopRuns(shape) THEN "loop" ELSE "done"
  /\ loop_k' = 0 /\ loop_n' = 0 /\ loop_m' = 0
  /\ UNCHANGED <<shape, binary, layouts, frag_A, frag_B, frag_C, visited>>

\* One iteration of the loop nest, then the loop counters advance:
\* m innermost, then n, then k.
DoIterate ==
  /\ pc = "loop"
  /\ frag_D' = LoopBody(shape, binary, layouts, frag_A, frag_B, frag_C,
                        frag_D, loop_k, loop_n, loop_m)
  /\ visited' = Append(visited,
                       <<m_serpentine(shape.kM, loop_n, loop_m), loop_n, loop_k>>)
  /\ IF loop_m + 1 < shape.kM
       THEN /\ loop_m' = loop_m + 1
            /\ UNCHANGED <<loop_n, loop_k, pc>>
       ELSE /\ loop_m' = 0
            /\ IF loop_n + 1 < shape.kN
                 THEN /\ loop_n' = loop_n + 1
                      /\ UNCHANGED <<loop_k, pc>>
                 ELSE /\ loop_n' = 0
                      /\ loop_k' = loop_k + 1
                      /\ pc' = IF loop_k + 1 < shape.kK THEN "loop" ELSE "done"
  /\ UNCHANGED <<shape, binary, layouts, frag_A, frag_B, frag_C>>

\* MmaGeneric<Shape, bool, LayoutA, ElementB, ...>::operator()
MmaGenericA_Copy == binary = "A" /\ DoCopy /\ UNCHANGED <<warpVars, buildVars, mainVars, stagingVars, dispatchVars>>
MmaGenericA_Iterate == binary = "A" /\ DoIterate /\ UNCHANGED <<warpVars, buildVars, mainVars, stagingVars, dispatchVars>>

\* MmaGeneric<Shape, ElementA, LayoutA, bool, ...>::operator()
MmaGenericB_Copy == binary = "B" /\ DoCopy /\ UNCHANGED <<warpVars, buildVars, mainVars, stagingVars, dispatchVars>>
MmaGenericB_Iterate == binary = "B" /\ DoIterate /\ UNCHANGED <<warpVars, buildVars, mainVars, stagingVars, dispatchVars>>

Shapes == [kM : 1 .. MaxM, kN : 1 .. MaxN, kK : 1 .. MaxK]

\* no thread-level call is modelled on its own
ThreadIdle ==
  /\ shape = [kM |-> 0, kN |-> 0, kK |-> 0]
  /\ binary = "A"
  /\ layouts = [A |-> "RowMajor", B |-> "RowMajor", C |-> "RowMajor"]
  /\ frag_A = << >> /\ frag_B = << >> /\ frag_C = << >> /\ frag_D = << >>
  /\ pc = "idle"
  /\ loop_k = 0 /\ loop_n = 0 /\ loop_m = 0
  /\ visited = << >>

\* no warp is modelled
WarpIdle ==
  /\ warp_cfg = << >>
  /\ lane_a = << >> /\ lane_b = << >> /\ lane_c = << >>
  /\ dst_A = << >> /\ dst_B = << >> /\ lane_d = << >>
  /\ warp_pc = "idle"
  /\ warp_k = 0 /\ warp_n = 0 /\ warp_m = 0
  /\ written = << >>

\* no instantiation is modelled
BuildIdle == inst = << >> /\ build = "idle"

\* no mainloop is modelled
MainIdle ==
  /\ ml_cfg = << >> /\ glob_A = << >> /\ glob_B = << >>
  /\ src_accum = << >> /\ accum = << >>
  /\ tb_frag_A = << >> /\ tb_frag_B = << >> /\ smem = << >>
  /\ ml_phase = "idle" /\ ml_step = "none"
  /\ gemm_k_iterations = 0 /\ iter_tile = 0 /\ write_stage = 0
  /\ events = << >> /\ touched = {}

\* no threadblock is modelled
StagingIdle == tb = << >> /\ warp_st = << >> /\ stage_tile = << >>

\* no warp-level or thread-level instantiation is modelled
DispatchIdle == simt_inst = << >> /\ mma_inst = << >> /\ simt_build = "idle"

InitThread ==
  /\ WarpIdle /\ BuildIdle /\ MainIdle /\ StagingIdle /\ DispatchIdle
  /\ shape \in Shapes
  /\ binary \in {"A", "B"}
  /\ layouts \in LayoutConfigs
  /\ frag_A \in (IF binary = "A" THEN BinFrags(shape.kM * shape.kK)
                                 ELSE NumFrags(shape.kM * shape.kK))
  /\ frag_B \in (IF binary = "B" THEN BinFrags(shape.kK * shape.kN)
                                 ELSE NumFrags(shape.kK * shape.kN))
  /\ frag_C \in AccumFrags(shape.kM * shape.kN)
  /\ frag_D = StaleFrag(shape.kM * shape.kN)
  /\ pc = "entry"
  /\ loop_k = 0 /\ loop_n = 0 /\ loop_m = 0
  /\ visited = << >>

NextThread ==
  \/ MmaGenericA_Copy
  \/ MmaGenericA_Iterate
  \/ MmaGenericB_Copy
  \/ MmaGenericB_Iterate

SpecThread == InitThread /\ [][NextThread]_vars


(***************************************************************************)
(* SpikeMmaSimt: the warp-level operator, executed by every lane of the    *)
(* warp on its own fragments.                                              *)
(***************************************************************************)
WarpLayouts ==
  {"RowMajor", "ColumnMajor", "RowMajorInterleaved4", "ColumnMajorInterleaved4"}

\* ThreadLayoutA / ThreadLayoutB: the interleaved layouts map to the plain ones
ThreadLayout(layout) ==
  IF layout = "ColumnMajorInterleaved4" THEN "ColumnMajor"
  ELSE IF layout = "RowMajorInterleaved4" THEN "RowMajor"
  ELSE layout

\* (mutation of ThreadMmaShape: kRow and kColumn exchanged)
ThreadMmaShape_RowColumnSwapped(cfg) ==
  [kM |-> cfg.kM \div cfg.kColumn, kN |-> cfg.kN \div cfg.kRow, kK |-> cfg.kK]

\* ThreadMma's shape: GemmShape<Shape::kM / Policy::WarpShape::kRow,
\*   Shape::kN / Policy::WarpShape::kColumn, Policy::LaneMmaShape::kK>
ThreadMmaShape(cfg) ==
  [kM |-> cfg.kM \div cfg.kRow, kN |-> cfg.kN \div cfg.kColumn, kK |-> cfg.kK]

\* ThreadMma's layouts: ThreadLayoutA, ThreadLayoutB, LayoutC
ThreadMmaLayouts(cfg) ==
  [A |-> ThreadLayout(cfg.LayoutA), B |-> ThreadLayout(cfg.LayoutB), C |-> cfg.LayoutC]

\* the lanes of the warp, as (row, column) of Policy::WarpShape
Lanes(cfg) == (0 .. cfg.kRow - 1) \X (0 .. cfg.kColumn - 1)

LaneId(cfg, lane) == lane[1] * cfg.kColumn + lane[2]

\* The warp-tile cell behind element (i, j) of a lane's accumulator fragment:
\* the lanes partition the Shape::kM x Shape::kN tile into kRow x kColumn blocks.
LaneCell(cfg, lane, i, j) ==
  << lane[1] * (cfg.kM \div cfg.kRow) + i, lane[2] * (cfg.kN \div cfg.kColumn) + j >>

\* (mutation of TransformedB: the elements of B stored in reverse order)
TransformedB_Reversed(a, b) ==
  [i \in DOMAIN b |-> b[Cardinality(DOMAIN b) - 1 - i]]

\* dst_A = A;
TransformedA(a, b) == a

\* dst_B = B;
TransformedB(a, b) == b

\* SpikeMmaSimt::transform(dst_A, dst_B, A, B), by every lane
SpikeMmaSimt_transform ==
  /\ warp_pc = "loaded"
  /\ dst_A' = [l \in Lanes(warp_cfg) |-> TransformedA(lane_a[l], lane_b[l])]
  /\ dst_B' = [l \in Lanes(warp_cfg) |-> TransformedB(lane_a[l], lane_b[l])]
  /\ warp_pc' = "transformed"
  /\ UNCHANGED <<warp_cfg, lane_a, lane_b, lane_c, lane_d,
                 warp_k, warp_n, warp_m, written>>
  /\ UNCHANGED <<threadVars, buildVars, mainVars, stagingVars, dispatchVars>>

\* SpikeMmaSimt::operator()(d, a, b, c) on the transformed fragments, up to
\* the entry of the thread-level loop nest: mma(d, a, b, c) starts with D = C.
SpikeMmaSimt_call ==
  /\ warp_pc = "transformed"
  /\ lane_d' = [l \in Lanes(warp_cfg) |-> CopyAccumulators(lane_c[l], lane_d[l])]
  /\ warp_pc' = IF LoopRuns(ThreadMmaShape(warp_cfg)) THEN "loop" ELSE "done"
  /\ warp_k' = 0 /\ warp_n' = 0 /\ warp_m' = 0
  /\ UNCHANGED <<warp_cfg, lane_a, lane_b, lane_c, dst_A, dst_B, written>>
  /\ UNCHANGED <<threadVars, buildVars, mainVars, stagingVars, dispatchVars>>

\* (mutation of CallOperands: A reordered for every group but the first)
CallOperands_ByGroup(a, b, group_idx) ==
  [a |-> IF group_idx = 0 THEN a
         ELSE [i \in DOMAIN a |-> a[Cardinality(DOMAIN a) - 1 - i]],
   b |-> b]

\* The operands operator()(d, a, b, c, group_idx) hands to mma(d, a, b, c):
\* neither complex transform is kConjugate, group_idx is not read.
CallOperands(a, b, group_idx) == [a |-> a, b |-> b]

\* One iteration of the thread-level loop nest, by all lanes in lockstep.
SpikeMmaSimt_iterate ==
  LET sh == ThreadMmaShape(warp_cfg)
      lay == ThreadMmaLayouts(warp_cfg)
      ms == m_serpentine(sh.kM, warp_n, warp_m)
      ops(l) == CallOperands(dst_A[l], dst_B[l], warp_cfg.group_idx)
  IN
  /\ warp_pc = "loop"
  /\ lane_d' = [l \in Lanes(warp_cfg) |->
                  LoopBody(sh, warp_cfg.binary, lay, ops(l).a, ops(l).b,
                           lane_c[l], lane_d[l], warp_k, warp_n, warp_m)]
  /\ written' = [l \in Lanes(warp_cfg) |->
                   written[l] \cup {LaneCell(warp_cfg, l, ms, warp_n)}]
  /\ IF warp_m + 1 < sh.kM
       THEN /\ warp_m' = warp_m + 1
            /\ UNCHANGED <<warp_n, warp_k, warp_pc>>
       ELSE /\ warp_m' = 0
            /\ IF warp_n + 1 < sh.kN
                 THEN /\ warp_n' = warp_n + 1
                      /\ UNCHANGED <<warp_k, warp_pc>>
                 ELSE /\ warp_n' = 0
                      /\ warp_k' = warp_k + 1
                      /\ warp_pc' = IF warp_k + 1 < sh.kK THEN "loop" ELSE "done"
  /\ UNCHANGED <<warp_cfg, lane_a, lane_b, lane_c, dst_A, dst_B>>
  /\ UNCHANGED <<threadVars, buildVars, mainVars, stagingVars, dispatchVars>>

\* the layout parameters explored at warp level
WarpLayoutConfigs ==
  { <<"ColumnMajor", "RowMajor", "RowMajor">>,
    <<"RowMajor", "ColumnMajor", "RowMajor">>,
    <<"ColumnMajorInterleaved4", "RowMajorInterleaved4", "ColumnMajor">>,
    <<"RowMajorInterleaved4", "ColumnMajorInterleaved4", "ColumnMajor">> }

\* Shape and Policy combinations whose lane partition divides the warp tile
WarpConfigs ==
  { [kM |-> tm * r, kN |-> tn * c, kRow |-> r, kColumn |-> c, kK |-> k,
     binary |-> bin, LayoutA |-> lay[1], LayoutB |-> lay[2], LayoutC |-> lay[3],
     group_idx |-> g] :
      tm \in 1 .. MaxM, tn \in 1 .. MaxN, r \in 1 .. MaxLaneRows,
      c \in 1 .. MaxLaneColumns, k \in 1 .. MaxK, bin \in {"A", "B"},
      lay \in WarpLayoutConfigs, g \in 0 .. MaxGroupIdx }

\* the template arguments behind a warp whose operand `binary` is bool
SimtArgs(cfg) ==
  [kM |-> cfg.kM, kN |-> cfg.kN, kRow |-> cfg.kRow, kColumn |-> cfg.kColumn,
   kK |-> cfg.kK,
   ElementA |-> IF cfg.binary = "A" THEN "bool" ELSE "float",
   ElementB |-> IF cfg.binary = "B" THEN "bool" ELSE "float",
   LayoutA |-> cfg.LayoutA, LayoutB |-> cfg.LayoutB, LayoutC |-> cfg.LayoutC]

\* input fragments of lane number id: a 0/1 pattern of period p, a ramp
BinPeriods == {1, 2, 3}
LaneBin(n, p, id) == [i \in 0 .. n - 1 |-> ((i + id) % p) = 0]
LaneNum(n, r, id) == Ramp(n, <<r[1] + id, r[2]>>)

InitWarp ==
  /\ ThreadIdle /\ BuildIdle /\ MainIdle /\ StagingIdle /\ DispatchIdle
  /\ warp_cfg \in WarpConfigs
  /\ \E p \in BinPeriods, r \in OperandRamps, rc \in AccumRamps :
       LET sh == ThreadMmaShape(warp_cfg)
           bin(n, l) == LaneBin(n, p, LaneId(warp_cfg, l))
           num(n, l) == LaneNum(n, r, LaneId(warp_cfg, l))
       IN
       /\ lane_a = [l \in Lanes(warp_cfg) |->
                      IF warp_cfg.binary = "A" THEN bin(sh.kM * sh.kK, l)
                                               ELSE num(sh.kM * sh.kK, l)]
       /\ lane_b = [l \in Lanes(warp_cfg) |->
                      IF warp_cfg.binary = "B" THEN bin(sh.kK * sh.kN, l)
                                               ELSE num(sh.kK * sh.kN, l)]
       /\ lane_c = [l \in Lanes(warp_cfg) |->
                      LaneNum(sh.kM * sh.kN, rc, LaneId(warp_cfg, l))]
       /\ dst_A = [l \in Lanes(warp_cfg) |->
                     IF warp_cfg.binary = "A" THEN StaleBits(sh.kM * sh.kK)
                                              ELSE StaleFrag(sh.kM * sh.kK)]
       /\ dst_B = [l \in Lanes(warp_cfg) |->
                     IF warp_cfg.binary = "B" THEN StaleBits(sh.kK * sh.kN)
                                              ELSE StaleFrag(sh.kK * sh.kN)]
       /\ lane_d = [l \in Lanes(warp_cfg) |-> StaleFrag(sh.kM * sh.kN)]
  /\ warp_pc = "loaded"
  /\ warp_k = 0 /\ warp_n = 0 /\ warp_m = 0
  /\ written = [l \in Lanes(warp_cfg) |-> {}]

NextWarp ==
  \/ SpikeMmaSimt_transform
  \/ SpikeMmaSimt_call
  \/ SpikeMmaSimt_iterate

SpecWarp == InitWarp /\ [][NextWarp]_vars

(***************************************************************************)
(* threadblock::SpikeMma: the primary template is only declared; one       *)
(* partial specialization is defined.                                      *)
(***************************************************************************)
AccumulatorLayouts == {"RowMajor", "ColumnMajor", "AffineRank2", "RowMajorInterleaved4"}
OperatorClasses == {"OpClassSimt", "OpClassTensorOp", "OpClassWmmaTensorOp"}
SharedMemoryClearOptions == {"kNone", "kZfill", "kClearLastStage"}

\* the instantiations requested
Instantiations ==
  [ binary : {"A", "B"},
    LayoutC : AccumulatorLayouts,
    OperatorClass : OperatorClasses,
    Stages : 1 .. MaxStages,
    AccumulatorsInRowMajor : BOOLEAN,
    SharedMemoryClear : SharedMemoryClearOptions,
    GatherA : BOOLEAN,
    GatherB : BOOLEAN ]

\* (mutation of MatchesSimtSpecialization: the stage count left open)
MatchesSimtSpecialization_AnyStages(args) ==
  /\ args.OperatorClass = "OpClassSimt"
  /\ args.AccumulatorsInRowMajor = FALSE
  /\ args.SharedMemoryClear = "kNone"

\* Whether the arguments match the partial specialization
\*   SpikeMma<..., arch::OpClassSimt, ..., 2, Operator, false,
\*            SharedMemoryClearOption::kNone, GatherA, GatherB, ...>
MatchesSimtSpecialization(args) ==
  /\ args.OperatorClass = "OpClassSimt"
  /\ args.Stages = 2
  /\ args.AccumulatorsInRowMajor = FALSE
  /\ args.SharedMemoryClear = "kNone"

\* (mutation of LayoutCAccepted: the affine alternative dropped)
LayoutCAccepted_RowMajorOnly(layoutC) == layoutC = "RowMajor"

\* the condition of static_assert(is_same<LayoutC, layout::RowMajor>::value
\*   || is_same<LayoutC, layout::AffineRankN<2>>::value, "simt epilogue must be row major")
LayoutCAccepted(layoutC) == layoutC = "RowMajor" \/ layoutC = "AffineRank2"

\* Instantiating SpikeMma<args> and naming a member of it.
Instantiate ==
  /\ build = "pending"
  /\ build' = IF ~MatchesSimtSpecialization(inst) THEN "incomplete_type"
              ELSE IF ~LayoutCAccepted(inst.LayoutC) THEN "static_assert"
              ELSE "accepted"
  /\ UNCHANGED inst
  /\ UNCHANGED <<threadVars, warpVars, mainVars, stagingVars, dispatchVars>>

InitBuild ==
  /\ ThreadIdle /\ WarpIdle /\ MainIdle /\ StagingIdle /\ DispatchIdle
  /\ inst \in Instantiations
  /\ build = "pending"

NextBuild == Instantiate

SpecBuild == InitBuild /\ [][NextBuild]_vars

(***************************************************************************)
(* SpikeMma::IteratorA, IteratorB and ThreadblockMma: predicated global    *)
(* tile iterators feeding the two-stage pipelined mainloop.                *)
(***************************************************************************)
\* (mutation of kStages: a single shared-memory stage)
kStages_Single == 2 - 1

\* the pipeline depth: the literal 2 of the specialization, handed to
\* SpikeMmaCore and selecting MmaPipelined
kStages == 2

\* IteratorB: PredicatedTileIterator<MatrixShape<kK, kN>, ElementB, LayoutB, 0, ...>
AdvanceRankB == 0

\* (mutation of AdvanceRankA: IteratorA advancing along the rows, like IteratorB)
AdvanceRankA_AlongRows == AdvanceRankB

\* IteratorA: PredicatedTileIterator<MatrixShape<kM, kK>, ElementA, LayoutA, 1, ...>
AdvanceRankA == 1

\* IteratorA's tile: MatrixShape<MmaCore::Shape::kM, MmaCore::Shape::kK>
TileShapeA(cfg) == <<cfg.kM, cfg.kK>>

\* IteratorB's tile: MatrixShape<MmaCore::Shape::kK, MmaCore::Shape::kN>
TileShapeB(cfg) == <<cfg.kK, cfg.kN>>

\* First coordinate of the t-th tile of an iterator advancing along `rank`.
TileOrigin(rank, tile, t) ==
  IF rank = 0 THEN <<t * tile[1], 0>> ELSE <<0, t * tile[2]>>

\* Coordinate of flat offset o in a packed rows x cols tensor.
Coord(layout, rows, cols, o) ==
  IF layout = "RowMajor" THEN <<o \div cols, o % cols>>
                         ELSE <<o % rows, o \div rows>>

\* The guard of a predicated access: the coordinate lies inside the extent.
Predicate(extent, c) == c[1] < extent[1] /\ c[2] < extent[2]

\* A read of global memory; outside the allocation it yields whatever is there.
ReadGlobal(glob, c, other) == IF c \in DOMAIN glob THEN glob[c] ELSE other

\* The global coordinate behind flat offset o of the t-th tile.
TileCoord(rank, tile, t, layout, o) ==
  LET origin == TileOrigin(rank, tile, t)
      ij == Coord(layout, tile[1], tile[2], o)
  IN <<origin[1] + ij[1], origin[2] + ij[2]>>

\* The fragment a predicated iterator loads for its t-th tile: a masked
\* element is not read and holds `zero`.
PredicatedLoad(glob, extent, rank, tile, t, layout, zero) ==
  [o \in 0 .. tile[1] * tile[2] - 1 |->
     LET c == TileCoord(rank, tile, t, layout, o)
     IN IF Predicate(extent, c) THEN ReadGlobal(glob, c, zero) ELSE zero]

\* The global coordinates that load reads.
Accessed(extent, rank, tile, t, layout) ==
  { c \in { TileCoord(rank, tile, t, layout, o) : o \in 0 .. tile[1] * tile[2] - 1 } :
      Predicate(extent, c) }

\* (mutation of KTiles: the partial last tile dropped)
KTiles_RoundDown(cfg) == cfg.gemmK \div cfg.kK

\* gemm_k_iterations: the number of K-tiles of the problem
KTiles(cfg) == (cfg.gemmK + cfg.kK - 1) \div cfg.kK

\* The whole thread-level call mma(d, a, b, c): D = C, then the loop nest from
\* iteration t on (k outer, n middle, m inner).
RECURSIVE MmaGenericFrom(_, _, _, _, _, _, _, _)
MmaGenericFrom(sh, bin, lay, a_frag, b_frag, c_frag, d_frag, t) ==
  IF t >= sh.kM * sh.kN * sh.kK THEN d_frag
  ELSE MmaGenericFrom(
         sh, bin, lay, a_frag, b_frag, c_frag,
         LoopBody(sh, bin, lay, a_frag, b_frag, c_frag, d_frag,
                  t \div (sh.kM * sh.kN), (t \div sh.kM) % sh.kN, t % sh.kM),
         t + 1)

MmaGeneric(sh, bin, lay, a_frag, b_frag, c_frag, d_frag) ==
  MmaGenericFrom(sh, bin, lay, a_frag, b_frag, c_frag,
                 CopyAccumulators(c_frag, d_frag), 0)

\* The same call with D and C naming one fragment, mma(d, a, b, d): "D = C"
\* assigns the fragment to itself, and whatever the loop nest reads of C it
\* reads from the fragment it is writing.
RECURSIVE MmaGenericInPlaceFrom(_, _, _, _, _, _, _)
MmaGenericInPlaceFrom(sh, bin, lay, a_frag, b_frag, d_frag, t) ==
  IF t >= sh.kM * sh.kN * sh.kK THEN d_frag
  ELSE MmaGenericInPlaceFrom(
         sh, bin, lay, a_frag, b_frag,
         LoopBody(sh, bin, lay, a_frag, b_frag, d_frag, d_frag,
                  t \div (sh.kM * sh.kN), (t \div sh.kM) % sh.kN, t % sh.kM),
         t + 1)

MmaGenericInPlace(sh, bin, lay, a_frag, b_frag, d_frag) ==
  MmaGenericInPlaceFrom(sh, bin, lay, a_frag, b_frag,
                        CopyAccumulators(d_frag, d_frag), 0)

\* the thread-level shape of the accumulate over one staged tile
TileMmaShape(cfg) == [kM |-> cfg.kM, kN |-> cfg.kN, kK |-> cfg.kK]

\* warp_mma(accum, A, B, accum) on one staged tile: the accumulate in place
WarpMma(cfg, stage, acc) ==
  MmaGenericInPlace(TileMmaShape(cfg), cfg.binary, cfg.layouts,
                    stage.A, stage.B, acc)

\* the slot that follows slot s, and the slot staged before the write slot
NextStage(s) == (s + 1) % kStages
ReadStage(ws) == (ws + kStages - 1) % kStages

\* (mutation of Enter: the steady state entered with one K-tile left)
Enter_OffByOne(left) ==
  IF left >= 1 THEN [phase |-> "steady", step |-> "issue", left |-> left]
               ELSE [phase |-> "epilogue", step |-> "sync", left |-> left]

\* The phase entered with `left` K-tiles not yet consumed: the steady state
\* while a further tile has to be fetched, else the epilogue.
Enter(left) ==
  IF left > 1 THEN [phase |-> "steady", step |-> "issue", left |-> left]
              ELSE [phase |-> "epilogue", step |-> "sync", left |-> left]

\* Control flow of the mainloop: what follows a step.
AfterStep(phase, step, left) ==
  CASE phase = "prologue" /\ step = "fetch" ->
         [phase |-> "prologue", step |-> "prime", left |-> left]
    [] phase = "prologue" /\ step = "prime" -> Enter(left)
    [] phase = "steady" /\ step = "issue" ->
         [phase |-> "steady", step |-> "sync", left |-> left]
    [] phase = "steady" /\ step = "sync" ->
         [phase |-> "steady", step |-> "compute", left |-> left]
    [] phase = "steady" /\ step = "compute" ->
         [phase |-> "steady", step |-> "swap", left |-> left]
    [] phase = "steady" /\ step = "swap" -> Enter(left - 1)
    [] phase = "epilogue" /\ step = "sync" ->
         [phase |-> "epilogue", step |-> "compute", left |-> left]
    [] phase = "epilogue" /\ step = "compute" ->
         [phase |-> "done", step |-> "none", left |-> left - 1]

\* the control part of a step
Advance ==
  LET nxt == AfterStep(ml_phase, ml_step, gemm_k_iterations)
  IN /\ ml_phase' = nxt.phase
     /\ ml_step' = nxt.step
     /\ gemm_k_iterations' = nxt.left

At_(phase, step) == ml_phase = phase /\ ml_step = step

OperandZero(cfg, operand) == IF cfg.binary = operand THEN FALSE ELSE 0

\* Fetch of the next tile of A and B from global memory; ++iterator_A, ++iterator_B.
FetchTile ==
  LET tileA == TileShapeA(ml_cfg)
      tileB == TileShapeB(ml_cfg)
      ea == <<ml_cfg.kM, ml_cfg.gemmK>>
      eb == <<ml_cfg.gemmK, ml_cfg.kN>>
  IN
  /\ tb_frag_A' = PredicatedLoad(glob_A, ea, AdvanceRankA, tileA, iter_tile,
                                 ml_cfg.layouts.A, OperandZero(ml_cfg, "A"))
  /\ tb_frag_B' = PredicatedLoad(glob_B, eb, AdvanceRankB, tileB, iter_tile,
                                 ml_cfg.layouts.B, OperandZero(ml_cfg, "B"))
  /\ touched' = touched
       \cup { <<"A", c[1], c[2]>> :
                c \in Accessed(ea, AdvanceRankA, tileA, iter_tile, ml_cfg.layouts.A) }
       \cup { <<"B", c[1], c[2]>> :
                c \in Accessed(eb, AdvanceRankB, tileB, iter_tile, ml_cfg.layouts.B) }
  /\ events' = Append(events, <<"load", iter_tile, ml_phase>>)
  /\ iter_tile' = iter_tile + 1

\* Store of the fetched tile to the write slot, which then moves on.
StoreTile ==
  /\ smem' = [smem EXCEPT ![write_stage] =
                [A |-> tb_frag_A, B |-> tb_frag_B, tile |-> iter_tile - 1]]
  /\ write_stage' = NextStage(write_stage)

\* Accumulate of the staged tile.
ComputeTile ==
  LET stage == smem[ReadStage(write_stage)]
  IN /\ accum' = WarpMma(ml_cfg, stage, accum)
     /\ events' = Append(events, <<"compute", stage.tile, ml_phase>>)

\* prologue: accum = src_accum; fetch the first tile
Prologue_Fetch ==
  /\ At_("prologue", "fetch")
  /\ accum' = src_accum
  /\ FetchTile
  /\ Advance
  /\ UNCHANGED <<ml_cfg, glob_A, glob_B, src_accum, smem, write_stage>>
  /\ UNCHANGED <<threadVars, warpVars, buildVars, stagingVars, dispatchVars>>

\* prologue: prime the first shared-memory stage
Prologue_Prime ==
  /\ At_("prologue", "prime")
  /\ StoreTile
  /\ Advance
  /\ UNCHANGED <<ml_cfg, glob_A, glob_B, src_accum, accum, tb_frag_A, tb_frag_B,
                 iter_tile, events, touched>>
  /\ UNCHANGED <<threadVars, warpVars, buildVars, stagingVars, dispatchVars>>

\* steady state: issue the next global load
Steady_Issue ==
  /\ At_("steady", "issue")
  /\ FetchTile
  /\ Advance
  /\ UNCHANGED <<ml_cfg, glob_A, glob_B, src_accum, accum, smem, write_stage>>
  /\ UNCHANGED <<threadVars, warpVars, buildVars, stagingVars, dispatchVars>>

\* steady state: synchronize
Steady_Sync ==
  /\ At_("steady", "sync")
  /\ Advance
  /\ UNCHANGED <<ml_cfg, glob_A, glob_B, src_accum, accum, tb_frag_A, tb_frag_B,
                 smem, iter_tile, write_stage, events, touched>>
  /\ UNCHANGED <<threadVars, warpVars, buildVars, stagingVars, dispatchVars>>

\* steady state: compute against the currently staged tile
Steady_Compute ==
  /\ At_("steady", "compute")
  /\ ComputeTile
  /\ Advance
  /\ UNCHANGED <<ml_cfg, glob_A, glob_B, src_accum, tb_frag_A, tb_frag_B,
                 smem, iter_tile, write_stage, touched>>
  /\ UNCHANGED <<threadVars, warpVars, buildVars, stagingVars, dispatchVars>>

\* steady state: swap buffers; the fetched tile becomes the staged one
Steady_Swap ==
  /\ At_("steady", "swap")
  /\ StoreTile
  /\ Advance
  /\ UNCHANGED <<ml_cfg, glob_A, glob_B, src_accum, accum, tb_frag_A, tb_frag_B,
                 iter_tile, events, touched>>
  /\ UNCHANGED <<threadVars, warpVars, buildVars, stagingVars, dispatchVars>>

\* epilogue: synchronize
Epilogue_Sync ==
  /\ At_("epilogue", "sync")
  /\ Advance
  /\ UNCHANGED <<ml_cfg, glob_A, glob_B, src_accum, accum, tb_frag_A, tb_frag_B,
                 smem, iter_tile, write_stage, events, touched>>
  /\ UNCHANGED <<threadVars, warpVars, buildVars, stagingVars, dispatchVars>>

\* epilogue: final compute on the last staged tile, no further load
Epilogue_Compute ==
  /\ At_("epilogue", "compute")
  /\ ComputeTile
  /\ Advance
  /\ UNCHANGED <<ml_cfg, glob_A, glob_B, src_accum, tb_frag_A, tb_frag_B,
                 smem, iter_tile, write_stage, touched>>
  /\ UNCHANGED <<threadVars, warpVars, buildVars, stagingVars, dispatchVars>>

\* the accumulator layout is one the assembler accepts
MainLayouts ==
  { lay \in LayoutConfigs : LayoutCAccepted(lay.C) }

MainConfigs ==
  [ kM : 1 .. MaxM, kN : 1 .. MaxN, kK : 1 .. MaxTileK, gemmK : 1 .. MaxGemmK,
    binary : {"A", "B"}, layouts : MainLayouts ]

\* operands in global memory: a 0/1 pattern of period p and phase id, a ramp
BinMatrix(rows, cols, p, id) ==
  [c \in (0 .. rows - 1) \X (0 .. cols - 1) |-> ((c[1] * cols + c[2] + id) % p) = 0]
NumMatrix(rows, cols, r) ==
  [c \in (0 .. rows - 1) \X (0 .. cols - 1) |-> r[1] + r[2] * (c[1] * cols + c[2])]

\* A launch: operands and source accumulators in place, nothing fetched yet.
Launch(configs, periods, ramps, accums) ==
  /\ ThreadIdle /\ WarpIdle /\ BuildIdle /\ StagingIdle /\ DispatchIdle
  /\ ml_cfg \in configs
  /\ \E p \in periods, r \in ramps :
       \E id \in 0 .. p - 1 :
         /\ glob_A = IF ml_cfg.binary = "A"
                       THEN BinMatrix(ml_cfg.kM, ml_cfg.gemmK, p, id)
                       ELSE NumMatrix(ml_cfg.kM, ml_cfg.gemmK, r)
         /\ glob_B = IF ml_cfg.binary = "B"
                       THEN BinMatrix(ml_cfg.gemmK, ml_cfg.kN, p, id)
                       ELSE NumMatrix(ml_cfg.gemmK, ml_cfg.kN, r)
  /\ \E r \in accums : src_accum = Ramp(ml_cfg.kM * ml_cfg.kN, r)
  /\ accum = StaleFrag(ml_cfg.kM * ml_cfg.kN)
  /\ tb_frag_A = PredicatedLoad(<< >>, <<0, 0>>, AdvanceRankA, TileShapeA(ml_cfg),
                                0, ml_cfg.layouts.A, OperandZero(ml_cfg, "A"))
  /\ tb_frag_B = PredicatedLoad(<< >>, <<0, 0>>, AdvanceRankB, TileShapeB(ml_cfg),
                                0, ml_cfg.layouts.B, OperandZero(ml_cfg, "B"))
  /\ smem = [s \in 0 .. kStages - 1 |-> [A |-> tb_frag_A, B |-> tb_frag_B, tile |-> -1]]
  /\ ml_phase = "prologue" /\ ml_step = "fetch"
  /\ gemm_k_iterations = KTiles(ml_cfg)
  /\ iter_tile = 0
  /\ write_stage = 0
  /\ events = << >>
  /\ touched = {}

InitMainloop == Launch(MainConfigs, BinPeriods, OperandRamps, AccumRamps)

NextMainloop ==
  \/ Prologue_Fetch
  \/ Prologue_Prime
  \/ Steady_Issue
  \/ Steady_Sync
  \/ Steady_Compute
  \/ Steady_Swap
  \/ Epilogue_Sync
  \/ Epilogue_Compute

SpecMainloop == InitMainloop /\ [][NextMainloop]_vars

\* The launches told apart by their control flow alone: every tile K and K
\* extent, over one accumulator cell and one choice of layouts and operand
\* values.
LaunchConfigs ==
  { cfg \in MainConfigs :
      /\ cfg.kM = 1 /\ cfg.kN = 1
      /\ cfg.layouts = [A |-> "RowMajor", B |-> "ColumnMajor", C |-> "RowMajor"] }

InitLaunch == Launch(LaunchConfigs, {1}, { <<1, 0>> }, { <<0, 0>> })

\* once launched the mainloop runs to completion
FairSpecMainloop == InitLaunch /\ [][NextMainloop]_vars /\ WF_vars(NextMainloop)

(***************************************************************************)
(* The same mainloop run by every warp of a threadblock: the warps share   *)
(* the kStages shared-memory slots and meet at the barrier.  Each warp     *)
(* stores its part of a tile and reads the parts of all.                   *)
(***************************************************************************)
Warps == 0 .. tb.warps - 1

\* the step a warp is at
WarpAt(w, steps, sub) == warp_st[w].step \in steps /\ warp_st[w].sub = sub

\* a warp's record after it completes its current step
Advanced(r) ==
  LET nxt == AfterStep(r.phase, r.step, r.left)
  IN [r EXCEPT !.phase = nxt.phase, !.step = nxt.step, !.left = nxt.left,
               !.sub = "idle"]

\* the barrier lets a warp through once no warp is behind it
BarrierOpen(st, w) == \A v \in DOMAIN st : st[v].arrived >= st[w].arrived

\* fetch of the warp's part of the next tile from global memory to registers
Warp_GlobalLoad ==
  \E w \in Warps :
    /\ WarpAt(w, {"fetch", "issue"}, "idle")
    /\ warp_st' = [warp_st EXCEPT ![w] =
                     Advanced([warp_st[w] EXCEPT !.tile = warp_st[w].tile + 1])]
    /\ UNCHANGED <<tb, stage_tile>>
    /\ UNCHANGED <<threadVars, warpVars, buildVars, mainVars, dispatchVars>>

\* the warp starts storing its registers to its write slot
Warp_BeginStore ==
  \E w \in Warps :
    /\ WarpAt(w, {"prime", "swap"}, "idle")
    /\ warp_st' = [warp_st EXCEPT ![w] =
                     [warp_st[w] EXCEPT !.sub = "writing",
                                        !.slot = warp_st[w].write_stage]]
    /\ UNCHANGED <<tb, stage_tile>>
    /\ UNCHANGED <<threadVars, warpVars, buildVars, mainVars, dispatchVars>>

\* the store is complete; the warp's write slot moves on
Warp_EndStore ==
  \E w \in Warps :
    /\ WarpAt(w, {"prime", "swap"}, "writing")
    /\ stage_tile' = [stage_tile EXCEPT ![warp_st[w].slot][w] = warp_st[w].tile - 1]
    /\ warp_st' = [warp_st EXCEPT ![w] =
                     Advanced([warp_st[w] EXCEPT
                                 !.write_stage = NextStage(warp_st[w].write_stage)])]
    /\ UNCHANGED tb
    /\ UNCHANGED <<threadVars, warpVars, buildVars, mainVars, dispatchVars>>

\* the warp arrives at the barrier
Warp_Arrive ==
  \E w \in Warps :
    /\ WarpAt(w, {"sync"}, "idle")
    /\ warp_st' = [warp_st EXCEPT ![w] =
                     [warp_st[w] EXCEPT !.sub = "waiting",
                                        !.arrived = warp_st[w].arrived + 1]]
    /\ UNCHANGED <<tb, stage_tile>>
    /\ UNCHANGED <<threadVars, warpVars, buildVars, mainVars, dispatchVars>>

\* the warp leaves the barrier
Warp_Pass ==
  \E w \in Warps :
    /\ WarpAt(w, {"sync"}, "waiting")
    /\ BarrierOpen(warp_st, w)
    /\ warp_st' = [warp_st EXCEPT ![w] = Advanced(warp_st[w])]
    /\ UNCHANGED <<tb, stage_tile>>
    /\ UNCHANGED <<threadVars, warpVars, buildVars, mainVars, dispatchVars>>

\* the warp starts reading the staged tile
Warp_BeginRead ==
  \E w \in Warps :
    /\ WarpAt(w, {"compute"}, "idle")
    /\ warp_st' = [warp_st EXCEPT ![w] =
                     [warp_st[w] EXCEPT !.sub = "reading",
                                        !.slot = ReadStage(warp_st[w].write_stage)]]
    /\ UNCHANGED <<tb, stage_tile>>
    /\ UNCHANGED <<threadVars, warpVars, buildVars, mainVars, dispatchVars>>

\* the warp has consumed the staged tile
Warp_EndRead ==
  \E w \in Warps :
    /\ WarpAt(w, {"compute"}, "reading")
    /\ warp_st' = [warp_st EXCEPT ![w] =
                     Advanced([warp_st[w] EXCEPT !.consumed = warp_st[w].consumed + 1])]
    /\ UNCHANGED <<tb, stage_tile>>
    /\ UNCHANGED <<threadVars, warpVars, buildVars, mainVars, dispatchVars>>

InitStaging ==
  /\ ThreadIdle /\ WarpIdle /\ BuildIdle /\ MainIdle /\ DispatchIdle
  /\ tb \in [warps : 2 .. MaxWarps, tiles : 1 .. MaxKTiles]
  /\ warp_st = [w \in Warps |->
                  [phase |-> "prologue", step |-> "fetch", left |-> tb.tiles,
                   tile |-> 0, write_stage |-> 0, sub |-> "idle", slot |-> 0,
                   arrived |-> 0, consumed |-> 0]]
  /\ stage_tile = [s \in 0 .. kStages - 1 |-> [w \in Warps |-> -1]]

NextStaging ==
  \/ Warp_GlobalLoad
  \/ Warp_BeginStore
  \/ Warp_EndStore
  \/ Warp_Arrive
  \/ Warp_Pass
  \/ Warp_BeginRead
  \/ Warp_EndRead

SpecStaging == InitStaging /\ [][NextStaging]_vars

(***************************************************************************)
(* Build time: SpikeMmaSimt<Shape, ElementA, LayoutA, ElementB, LayoutB,   *)
(* ElementC, LayoutC, Policy> names ThreadMma = thread::Mma<...>, which    *)
(* the compiler resolves against the partial specializations of            *)
(* thread::Mma defined for a binary operand.                               *)
(***************************************************************************)
Elements == {"bool", "int8_t", "float"}
MathOperators == {"OpMultiplyAdd", "OpXorPopc"}

\* static constexpr bool use_dp4a
use_dp4a(cfg) ==
  /\ cfg.LayoutA \in {"ColumnMajorInterleaved4", "RowMajorInterleaved4"}
  /\ cfg.ElementA = "int8_t"
  /\ cfg.ElementB = "int8_t"

\* using dp4a_type = conditional<use_dp4a, int8_t, bool>::type
dp4a_type(cfg) == IF use_dp4a(cfg) THEN "int8_t" ELSE "bool"

\* the template arguments of ThreadMma
ThreadMmaArgs(cfg) ==
  [ shape |-> ThreadMmaShape(cfg),
    ElementA |-> cfg.ElementA, LayoutA |-> ThreadLayout(cfg.LayoutA),
    ElementB |-> cfg.ElementB, LayoutB |-> ThreadLayout(cfg.LayoutB),
    LayoutC |-> cfg.LayoutC,
    Operator |-> "OpMultiplyAdd", Enable |-> dp4a_type(cfg) ]

\* (mutation of MmaForBoolA: the element type of A left open)
MmaForBoolA_AnyElementA == [Operator |-> "OpMultiplyAdd", Enable |-> "bool"]

\* struct Mma<Shape_, bool, LayoutA_, ElementB_, LayoutB_, ElementC_, LayoutC_,
\*            arch::OpMultiplyAdd, bool>: the arguments the specialization fixes
MmaForBoolA ==
  [ElementA |-> "bool", Operator |-> "OpMultiplyAdd", Enable |-> "bool"]

\* struct Mma<Shape_, ElementA_, LayoutA_, bool, LayoutB_, ElementC_, LayoutC_,
\*            arch::OpMultiplyAdd, bool>
MmaForBoolB ==
  [ElementB |-> "bool", Operator |-> "OpMultiplyAdd", Enable |-> "bool"]

\* the routine each specialization's operator() forwards to
Specializations ==
  [r \in {"MmaGenericA", "MmaGenericB"} |->
     IF r = "MmaGenericA" THEN MmaForBoolA ELSE MmaForBoolB]

\* a specialization matches when the arguments agree with all it fixes
Matches(pattern, args) == \A f \in DOMAIN pattern : args[f] = pattern[f]

\* partial ordering of specializations: p fixes all that q fixes
AtLeastAsSpecialized(p, q) ==
  \A f \in DOMAIN q : f \in DOMAIN p /\ p[f] = q[f]

\* What thread::Mma<args> resolves to: the most specialized matching
\* specialization; "ambiguous" when no match is more specialized than all
\* others; "base" when none of the specializations defined here matches.
SelectedMma(args) ==
  LET cands == { r \in DOMAIN Specializations : Matches(Specializations[r], args) }
      best == { r \in cands :
                  \A q \in cands :
                    AtLeastAsSpecialized(Specializations[r], Specializations[q]) }
  IN IF cands = {} THEN "base"
     ELSE IF Cardinality(best) = 1 THEN CHOOSE r \in best : TRUE
     ELSE "ambiguous"

\* MmaSimtTileIterator's requirement on the lane partition: the extent of the
\* warp tile is a multiple of the lanes along it
IteratorAccepts(extent, lanes) == extent % lanes = 0

\* IteratorA (rows over WarpShape::kRow) and IteratorB (columns over
\* WarpShape::kColumn) are both instantiated for their Fragment types
IteratorsAccept(cfg) ==
  /\ IteratorAccepts(cfg.kM, cfg.kRow)
  /\ IteratorAccepts(cfg.kN, cfg.kColumn)

\* Instantiating SpikeMmaSimt<args>: its member types are formed.
InstantiateSpikeMmaSimt ==
  /\ simt_build = "pending"
  /\ IF IteratorsAccept(simt_inst)
       THEN /\ simt_build' = "thread_mma"
            /\ mma_inst' = ThreadMmaArgs(simt_inst)
       ELSE /\ simt_build' = "static_assert"
            /\ UNCHANGED mma_inst
  /\ UNCHANGED simt_inst
  /\ UNCHANGED <<threadVars, warpVars, buildVars, mainVars, stagingVars>>

\* Resolving thread::Mma<args>.
SelectThreadMma ==
  /\ simt_build = "thread_mma"
  /\ simt_build' = SelectedMma(mma_inst)
  /\ UNCHANGED <<simt_inst, mma_inst>>
  /\ UNCHANGED <<threadVars, warpVars, buildVars, mainVars, stagingVars>>

\* the warp-level instantiations requested
SimtInstantiations ==
  { [kM |-> m, kN |-> n, kRow |-> r, kColumn |-> c, kK |-> k,
     ElementA |-> ea, ElementB |-> eb,
     LayoutA |-> lay[1], LayoutB |-> lay[2], LayoutC |-> lay[3]] :
      m \in 1 .. MaxWarpM, n \in 1 .. MaxWarpN, r \in 1 .. MaxLaneRows,
      c \in 1 .. MaxLaneColumns, k \in 1 .. MaxK,
      ea \in Elements, eb \in Elements, lay \in WarpLayoutConfigs }

\* the thread-level instantiations requested directly
MmaInstantiations ==
  [ shape : Shapes,
    ElementA : Elements, LayoutA : Layouts,
    ElementB : Elements, LayoutB : Layouts,
    LayoutC : Layouts,
    Operator : MathOperators, Enable : {"bool", "int8_t"} ]

\* placeholders: no warp-level request; ThreadMma not yet named
NoSimt ==
  [kM |-> 0, kN |-> 0, kRow |-> 0, kColumn |-> 0, kK |-> 0,
   ElementA |-> "none", ElementB |-> "none",
   LayoutA |-> "none", LayoutB |-> "none", LayoutC |-> "none"]
NoMma ==
  [ shape |-> [kM |-> 0, kN |-> 0, kK |-> 0],
    ElementA |-> "none", LayoutA |-> "none",
    ElementB |-> "none", LayoutB |-> "none", LayoutC |-> "none",
    Operator |-> "none", Enable |-> "none" ]

InitDispatch ==
  /\ ThreadIdle /\ WarpIdle /\ BuildIdle /\ MainIdle /\ StagingIdle
  /\ \/ /\ simt_inst \in SimtInstantiations
        /\ mma_inst = NoMma
        /\ simt_build = "pending"
     \/ /\ simt_inst = NoSimt
        /\ mma_inst \in MmaInstantiations
        /\ simt_build = "thread_mma"

NextDispatch ==
  \/ InstantiateSpikeMmaSimt
  \/ SelectThreadMma

SpecDispatch == InitDispatch /\ [][NextDispatch]_vars

(***************************************************************************)
(* Properties of the thread-level accumulate.                              *)
(***************************************************************************)
\* element (row, col) of a fragment viewed as a packed rows x cols matrix
At(frag, layout, rows, cols, row, col) == frag[Offset(layout, rows, cols, row, col)]

\* what one (a, b) pair adds to a cell: the other operand when the bit is set
Contribution(bin, a, b) ==
  IF bin = "A" THEN (IF a THEN b ELSE 0) ELSE (IF b THEN a ELSE 0)

\* sum over k in 0 .. j of the predicated contribution to cell (m, n)
RECURSIVE PredicatedSum(_, _, _)
PredicatedSum(m, n, j) ==
  IF j < 0 THEN 0
  ELSE PredicatedSum(m, n, j - 1)
       + Contribution(binary,
                      At(frag_A, layouts.A, shape.kM, shape.kK, m, j),
                      At(frag_B, layouts.B, shape.kK, shape.kN, j, n))

Cells == (0 .. shape.kM - 1) \X (0 .. shape.kN - 1)

CellD(m, n) == At(frag_D, layouts.C, shape.kM, shape.kN, m, n)
CellC(m, n) == At(frag_C, layouts.C, shape.kM, shape.kN, m, n)

AccumulateResult ==
  \A mn \in Cells :
    CellD(mn[1], mn[2]) = CellC(mn[1], mn[2]) + PredicatedSum(mn[1], mn[2], shape.kK - 1)

\* the concrete case: M = N = K = 2, A = [[1,0],[0,1]], B = [[2,3],[4,5]], C = 0
ConcreteB == << <<2, 3>>, <<4, 5>> >>

ConcreteInput ==
  /\ binary = "A"
  /\ shape = [kM |-> 2, kN |-> 2, kK |-> 2]
  /\ \A m \in 0 .. 1 : \A k \in 0 .. 1 :
       At(frag_A, layouts.A, 2, 2, m, k) = (m = k)
  /\ \A k \in 0 .. 1 : \A n \in 0 .. 1 :
       At(frag_B, layouts.B, 2, 2, k, n) = ConcreteB[k + 1][n + 1]
  /\ \A m \in 0 .. 1 : \A n \in 0 .. 1 : CellC(m, n) = 0

ConcreteOutput ==
  \A m \in 0 .. 1 : \A n \in 0 .. 1 : CellD(m, n) = ConcreteB[m + 1][n + 1]

\* C1: when the call with A binary has returned, every cell holds
\* D[m,n] = C[m,n] + sum over k of (A[m,k] ? B[k,n] : 0); and for M = N = K = 2,
\* A = [[1,0],[0,1]], B = [[2,3],[4,5]], C = 0 the result is D = [[2,3],[4,5]].
C1_AccumulateABinary ==
  (pc = "done" /\ binary = "A") =>
    /\ AccumulateResult
    /\ ConcreteInput => ConcreteOutput

C1_Witness ==
  /\ pc = "done"
  /\ ConcreteInput
  /\ ConcreteOutput
  /\ frag_D # frag_C

\* C2: when the call with B binary has returned, every cell holds
\* D[m,n] = C[m,n] + sum over k of (B[k,n] ? A[m,k] : 0).
C2_AccumulateBBinary ==
  (pc = "done" /\ binary = "B") =>
    \A mn \in Cells :
      CellD(mn[1], mn[2])
        = CellC(mn[1], mn[2]) + PredicatedSum(mn[1], mn[2], shape.kK - 1)

\* a B-binary call over K = 2 in which some cell received both contributions
\* and some other cell none
C2_Witness ==
  /\ pc = "done" /\ binary = "B"
  /\ shape.kK = 2 /\ shape.kN = 2
  /\ \E n \in 0 .. 1 :
       /\ \A k \in 0 .. 1 : At(frag_B, layouts.B, 2, 2, k, n)
       /\ \A k \in 0 .. 1 : ~At(frag_B, layouts.B, 2, 2, k, 1 - n)
       /\ CellD(0, n) # CellC(0, n)
       /\ CellD(0, 1 - n) = CellC(0, 1 - n)

\* the same loop nest with m in natural order 0 .. kM-1 for every n:
\* D after the iterations numbered t, t+1, ... (k outer, n middle, m inner)
RECURSIVE NaturalOrderFrom(_, _)
NaturalOrderFrom(t, d_frag) ==
  IF t >= shape.kM * shape.kN * shape.kK THEN d_frag
  ELSE NaturalOrderFrom(
         t + 1,
         LoopCell(shape, binary, layouts, frag_A, frag_B, frag_C, d_frag,
                  t \div (shape.kM * shape.kN),
                  (t \div shape.kM) % shape.kN,
                  t % shape.kM))

Triples == (0 .. shape.kM - 1) \X (0 .. shape.kN - 1) \X (0 .. shape.kK - 1)

TimesVisited(t) == Cardinality({ i \in 1 .. Len(visited) : visited[i] = t })

\* C3: when the call has returned, the serpentine loop has visited every
\* (m, n, k) triple of the tile exactly once, and D equals the D the loop
\* produces with m in natural order.
C3_SerpentineSameAsNatural ==
  pc = "done" =>
    /\ \A t \in Triples : TimesVisited(t) = 1
    /\ Len(visited) = shape.kM * shape.kN * shape.kK
    /\ frag_D = NaturalOrderFrom(0, frag_C)

\* a finished call over a tile with two rows and two columns, where the
\* serpentine order differs from the natural one, and D has changed
C3_Witness ==
  /\ pc = "done"
  /\ shape.kM = 2 /\ shape.kN = 2
  /\ \E i \in 1 .. Len(visited) - 1 :
       visited[i][2] = 1 /\ visited[i + 1][2] = 1
       /\ visited[i][1] = 1 /\ visited[i + 1][1] = 0
  /\ frag_D # frag_C

(***************************************************************************)
(* Properties of the warp-level operator.                                  *)
(***************************************************************************)
\* C4: a step of transform(dst_A, dst_B, A, B) leaves dst_A equal to A and
\* dst_B equal to B, element for element, in every lane, and leaves A and B
\* as they were.
C4_TransformIsIdentity ==
  [][ (warp_pc = "loaded" /\ warp_pc' = "transformed") =>
        /\ dst_A' = lane_a /\ dst_B' = lane_b
        /\ lane_a' = lane_a /\ lane_b' = lane_b ]_vars

\* transform has run on a warp of four lanes whose fragments hold both bit
\* values, and has replaced what dst_A and dst_B held before
C4_Witness ==
  /\ warp_pc = "transformed"
  /\ Cardinality(Lanes(warp_cfg)) = 4
  /\ dst_A = lane_a /\ dst_B = lane_b
  /\ \E l \in Lanes(warp_cfg) :
       LET bits == IF warp_cfg.binary = "A" THEN dst_A[l] ELSE dst_B[l]
       IN \E i \in DOMAIN bits : \E j \in DOMAIN bits : bits[i] /\ ~bits[j]

\* the block of the warp tile that the lane partition assigns to a lane
LaneBlock(cfg, lane) ==
  { LaneCell(cfg, lane, i, j) :
      i \in 0 .. (cfg.kM \div cfg.kRow) - 1, j \in 0 .. (cfg.kN \div cfg.kColumn) - 1 }

\* C10: during and after a warp-level accumulate, the warp-tile cells written
\* by two distinct lanes are disjoint, every lane writes only cells of its own
\* block, its D fragment has (Shape.kM / WarpShape.kRow) x
\* (Shape.kN / WarpShape.kColumn) elements, and when the accumulate has
\* returned the lane has written each of them.
C10_LanesDisjoint ==
  warp_pc \in {"loop", "done"} =>
    /\ \A l1 \in Lanes(warp_cfg) : \A l2 \in Lanes(warp_cfg) :
         l1 # l2 => written[l1] \cap written[l2] = {}
    /\ \A l \in Lanes(warp_cfg) :
         /\ written[l] \subseteq LaneBlock(warp_cfg, l)
         /\ DOMAIN lane_d[l]
              = 0 .. (warp_cfg.kM \div warp_cfg.kRow)
                       * (warp_cfg.kN \div warp_cfg.kColumn) - 1
         /\ warp_pc = "done" => written[l] = LaneBlock(warp_cfg, l)

\* a finished accumulate of a warp of 2 x 2 lanes with 2 x 2 thread tiles:
\* the four lanes together have written the 16 cells of the warp tile
C10_Witness ==
  /\ warp_pc = "done"
  /\ warp_cfg.kRow = 2 /\ warp_cfg.kColumn = 2
  /\ warp_cfg.kM = 4 /\ warp_cfg.kN = 4
  /\ UNION { written[l] : l \in Lanes(warp_cfg) } = (0 .. 3) \X (0 .. 3)
  /\ \A l \in Lanes(warp_cfg) : Cardinality(written[l]) = 4 /\ lane_d[l] # lane_c[l]

(***************************************************************************)
(* Properties of the threadblock-level assembler.                          *)
(***************************************************************************)
\* C6: an instantiation with operator class SIMT, 2 stages,
\* AccumulatorsInRowMajor = false and no shared-memory clear is accepted when
\* LayoutC is row-major or the rank-2 affine layout, and is rejected by the
\* static assertion for every other LayoutC.
C6_AccumulatorLayoutChecked ==
  (build # "pending" /\ MatchesSimtSpecialization(inst)) =>
    /\ inst.LayoutC \in {"RowMajor", "AffineRank2"} => build = "accepted"
    /\ inst.LayoutC \notin {"RowMajor", "AffineRank2"} => build = "static_assert"

\* the column-major instantiation of the SIMT two-stage assembler has been
\* rejected by the static assertion
C6_Witness ==
  /\ build = "static_assert"
  /\ inst.LayoutC = "ColumnMajor"
  /\ inst.OperatorClass = "OpClassSimt" /\ inst.Stages = 2
  /\ ~inst.AccumulatorsInRowMajor /\ inst.SharedMemoryClear = "kNone"

(***************************************************************************)
(* Properties of the assembled mainloop.                                   *)
(***************************************************************************)
\* reference dense binary GEMM: sum over k in 0 .. j, straight from global memory
RECURSIVE ReferenceSum(_, _, _)
ReferenceSum(m, n, j) ==
  IF j < 0 THEN 0
  ELSE ReferenceSum(m, n, j - 1)
       + Contribution(ml_cfg.binary, glob_A[<<m, j>>], glob_B[<<j, n>>])

MainCells == (0 .. ml_cfg.kM - 1) \X (0 .. ml_cfg.kN - 1)

MatchesReference ==
  \A mn \in MainCells :
    At(accum, ml_cfg.layouts.C, ml_cfg.kM, ml_cfg.kN, mn[1], mn[2])
      = At(src_accum, ml_cfg.layouts.C, ml_cfg.kM, ml_cfg.kN, mn[1], mn[2])
        + ReferenceSum(mn[1], mn[2], ml_cfg.gemmK - 1)

\* every global element read lies inside the problem: k below the K extent
ReadsInBounds ==
  \A x \in touched :
    /\ x[1] = "A" => (x[2] < ml_cfg.kM /\ x[3] < ml_cfg.gemmK)
    /\ x[1] = "B" => (x[2] < ml_cfg.gemmK /\ x[3] < ml_cfg.kN)

NonAlignedK == ml_phase # "idle" /\ ml_cfg.gemmK % ml_cfg.kK # 0

\* C5: when the K extent is not a multiple of the tile's K, the finished
\* mainloop holds src_accum plus the reference binary GEMM over the true K
\* extent, and at no point has a global element with k >= K been read.
C5_NonAlignedK ==
  NonAlignedK =>
    /\ ReadsInBounds
    /\ ml_phase = "done" => MatchesReference

\* K = 5 with tile-K = 4: finished, and the lone element of the partial tile
\* has contributed
C5_Witness ==
  /\ ml_phase = "done"
  /\ ml_cfg.gemmK = 5 /\ ml_cfg.kK = 4
  /\ <<"A", 0, 4>> \in touched /\ <<"B", 4, 0>> \in touched
  /\ Contribution(ml_cfg.binary, glob_A[<<0, 4>>], glob_B[<<4, 0>>]) # 0
  /\ MatchesReference

PhaseRank(phase) ==
  CASE phase = "prologue" -> 0
    [] phase = "steady" -> 1
    [] phase = "epilogue" -> 2
    [] phase = "done" -> 3
    [] OTHER -> 4

\* the phase the countdown alone dictates once the prologue is over
PhaseFor(left) ==
  IF left > 1 THEN "steady" ELSE IF left = 1 THEN "epilogue" ELSE "done"

\* C7: every step of the mainloop keeps or advances the phase in the order
\* prologue, steady state, epilogue, terminal; the countdown of remaining
\* K-tiles never increases; and outside the prologue the phase is the one the
\* countdown dictates.
C7_PhaseForward ==
  [][ /\ PhaseRank(ml_phase') >= PhaseRank(ml_phase)
      /\ gemm_k_iterations' <= gemm_k_iterations
      /\ ml_phase' \notin {"prologue", "idle"} => ml_phase' = PhaseFor(gemm_k_iterations')
    ]_vars

\* a run through all three phases has finished
C7_Witness ==
  /\ ml_phase = "done" /\ gemm_k_iterations = 0
  /\ \E i, j, k \in DOMAIN events :
       /\ events[i][3] = "prologue"
       /\ events[j][3] = "steady" /\ events[j][1] = "compute"
       /\ events[k][3] = "epilogue"

\* the number of tiles of K extent kK that cover the problem's K extent
TilesCovering ==
  CHOOSE t \in 1 .. ml_cfg.gemmK :
    t * ml_cfg.kK >= ml_cfg.gemmK /\ (t - 1) * ml_cfg.kK < ml_cfg.gemmK

TimesDone(kind, t) ==
  Cardinality({ i \in DOMAIN events : events[i][1] = kind /\ events[i][2] = t })

EachTileOnce ==
  /\ Len(events) = 2 * TilesCovering
  /\ \A t \in 0 .. TilesCovering - 1 :
       TimesDone("load", t) = 1 /\ TimesDone("compute", t) = 1
  /\ \A i \in DOMAIN events : events[i][1] = "load" => events[i][3] # "epilogue"

\* C8: a launched mainloop eventually reaches the terminal state, and there
\* every K-tile has been loaded exactly once and computed exactly once, no
\* load having been issued in the epilogue.
C8_Terminates ==
  /\ <>(ml_phase = "done")
  /\ [](ml_phase = "done" => EachTileOnce)

\* a mainloop over several K-tiles, the last one partial, has finished
C8_Witness ==
  /\ ml_phase = "done"
  /\ TilesCovering >= 3
  /\ ml_cfg.gemmK % ml_cfg.kK # 0
  /\ EachTileOnce

(***************************************************************************)
(* Properties of the shared-memory staging.                                *)
(***************************************************************************)
Reading(w) == warp_st[w].sub = "reading"
Writing(w) == warp_st[w].sub = "writing"

Resolved == simt_build \in {"MmaGenericA", "MmaGenericB", "ambiguous", "base"}

SpikeRoutines == {"MmaGenericA", "MmaGenericB"}

\* C11: thread::Mma for the multiply-add operator resolves to the A-binary
\* routine when only ElementA is bool, to the B-binary routine when only
\* ElementB is bool, and to neither when both are bool; a routine selected
\* has exactly its own operand binary; and a ThreadMma named by SpikeMmaSimt
\* with a bool operand is always of that multiply-add, non-packed form.
C11_OneBinaryOperand ==
  /\ (Resolved /\ mma_inst.Operator = "OpMultiplyAdd" /\ mma_inst.Enable = "bool") =>
       /\ (mma_inst.ElementA = "bool" /\ mma_inst.ElementB # "bool")
            => simt_build = "MmaGenericA"
       /\ (mma_inst.ElementB = "bool" /\ mma_inst.ElementA # "bool")
            => simt_build = "MmaGenericB"
       /\ (mma_inst.ElementA = "bool" /\ mma_inst.ElementB = "bool")
            => simt_build \notin SpikeRoutines
  /\ simt_build = "MmaGenericA" =>
       (mma_inst.ElementA = "bool" /\ mma_inst.ElementB # "bool")
  /\ simt_build = "MmaGenericB" =>
       (mma_inst.ElementB = "bool" /\ mma_inst.ElementA # "bool")
  /\ (simt_inst # NoSimt /\ mma_inst # NoMma
      /\ (simt_inst.ElementA = "bool" \/ simt_inst.ElementB = "bool")) =>
       (mma_inst.Operator = "OpMultiplyAdd" /\ mma_inst.Enable = "bool")

\* a warp-level instantiation with both operands bool has been resolved
C11_Witness ==
  /\ simt_inst # NoSimt
  /\ simt_inst.ElementA = "bool" /\ simt_inst.ElementB = "bool"
  /\ simt_build = "ambiguous"

\* C12: an instantiation of the threadblock assembler gets a definition
\* (accepted, or stopped by the definition's own static_assert) exactly when
\* its operator class is SIMT, its stage count 2, AccumulatorsInRowMajor
\* false and its shared-memory-clear option none; every other combination
\* finds only the declaration of the primary template.
C12_OnlySimtTwoStage ==
  build \in {"accepted", "static_assert", "incomplete_type"} =>
    ( build # "incomplete_type"
      <=> /\ inst.OperatorClass = "OpClassSimt"
          /\ inst.Stages = 2
          /\ inst.AccumulatorsInRowMajor = FALSE
          /\ inst.SharedMemoryClear = "kNone" )

\* a SIMT instantiation with three stages has found no definition
C12_Witness ==
  /\ build = "incomplete_type"
  /\ inst.OperatorClass = "OpClassSimt"
  /\ inst.Stages = 3
  /\ inst.AccumulatorsInRowMajor = FALSE
  /\ inst.SharedMemoryClear = "kNone"
  /\ LayoutCAccepted(inst.LayoutC)

\* the warp-level instantiation has formed its member types
SimtAccepted ==
  simt_inst # NoSimt /\ simt_build \notin {"pending", "static_assert", "idle"}

\* C13: every instantiation of the warp orchestrator that builds has a lane
\* partition that divides the warp tile exactly: the thread tile's M times
\* WarpShape::kRow is Shape::kM and its N times WarpShape::kColumn is
\* Shape::kN; a combination for which the division would truncate stops at
\* build time.
C13_PartitionDivides ==
  /\ SimtAccepted =>
       /\ mma_inst.shape.kM * simt_inst.kRow = simt_inst.kM
       /\ mma_inst.shape.kN * simt_inst.kColumn = simt_inst.kN
  /\ ( simt_inst # NoSimt /\ simt_build # "pending"
       /\ ( simt_inst.kM % simt_inst.kRow # 0
            \/ simt_inst.kN % simt_inst.kColumn # 0 ) )
       => simt_build = "static_assert"

\* a 4 x 2 warp tile over 2 x 2 lanes has built, with 2 x 1 thread tiles
C13_Witness ==
  /\ SimtAccepted
  /\ simt_inst.kM = 4 /\ simt_inst.kN = 2
  /\ simt_inst.kRow = 2 /\ simt_inst.kColumn = 2
  /\ mma_inst.shape.kM = 2 /\ mma_inst.shape.kN = 1
  /\ simt_build \in SpikeRoutines

(***************************************************************************)
(* Properties of the warp-level call.                                      *)
(***************************************************************************)
\* what the thread-level generic routine leaves in D for lane l's operands
ThreadRoutineResult(l) ==
  LET sh == ThreadMmaShape(warp_cfg)
  IN MmaGeneric(sh, warp_cfg.binary, ThreadMmaLayouts(warp_cfg),
                dst_A[l], dst_B[l], lane_c[l], StaleFrag(sh.kM * sh.kN))

\* C14: with exactly one operand bool, the packed-integer flag is false, the
\* thread-level specialization for that operand is selected, and when the
\* warp-level call has returned every lane's d holds exactly what the
\* thread-level generic routine yields on that lane's (a, b, c), whatever
\* group_idx was passed.
C14_PureForwarding ==
  warp_pc = "done" =>
    /\ ~use_dp4a(SimtArgs(warp_cfg))
    /\ SelectedMma(ThreadMmaArgs(SimtArgs(warp_cfg)))
         = (IF warp_cfg.binary = "A" THEN "MmaGenericA" ELSE "MmaGenericB")
    /\ \A l \in Lanes(warp_cfg) : lane_d[l] = ThreadRoutineResult(l)

\* a call with group_idx = 1 has returned and has added to some accumulator
C14_Witness ==
  /\ warp_pc = "done"
  /\ warp_cfg.group_idx = 1
  /\ warp_cfg.kK >= 2
  /\ \E l \in Lanes(warp_cfg) : lane_d[l] # lane_c[l]
  /\ \A l \in Lanes(warp_cfg) : lane_d[l] = ThreadRoutineResult(l)

(***************************************************************************)
(* Properties of the thread-level loop nest, step by step.                 *)
(***************************************************************************)
Visited(m, n, k) == \E i \in DOMAIN visited : visited[i] = <<m, n, k>>

\* C15: D equals C before the first iteration; and at every point of the
\* loop each cell holds C[m,n] plus the predicated contributions of all k
\* below the current one, plus that of the current k exactly when the cell
\* has been visited for it -- so after the outer iterations k = 0 .. j each
\* cell is C[m,n] + sum over k in 0 .. j, and no cell ever includes a k not
\* yet visited.
C15_RunningSum ==
  pc \in {"loop", "done"} =>
    /\ visited = << >> => frag_D = frag_C
    /\ \A mn \in Cells :
         CellD(mn[1], mn[2])
           = CellC(mn[1], mn[2])
             + PredicatedSum(mn[1], mn[2], loop_k - 1)
             + (IF Visited(mn[1], mn[2], loop_k)
                  THEN Contribution(
                         binary,
                         At(frag_A, layouts.A, shape.kM, shape.kK, mn[1], loop_k),
                         At(frag_B, layouts.B, shape.kK, shape.kN, loop_k, mn[2]))
                  ELSE 0)

\* the outer loop has completed k = 0 and is about to start k = 1, with a
\* contribution already in some cell
C15_Witness ==
  /\ pc = "loop"
  /\ loop_k = 1 /\ loop_n = 0 /\ loop_m = 0
  /\ Len(visited) = shape.kM * shape.kN
  /\ shape.kM * shape.kN >= 2
  /\ frag_D # frag_C

\* the triple visited by iteration number t (from 0) of a loop nest with k
\* outer, n middle, m inner and rows ascending for even n, descending for odd n
ExpectedVisit(t) ==
  LET k == t \div (shape.kM * shape.kN)
      n == (t \div shape.kM) % shape.kN
      j == t % shape.kM
  IN << IF n % 2 = 0 THEN j ELSE shape.kM - 1 - j, n, k >>

\* C16: the iterations visit the triples with k outermost, n in the middle
\* and m innermost, the rows in the order 0 .. M-1 for even n and M-1 .. 0
\* for odd n; so where the loop passes from column n to column n+1 the row
\* stays the same.
C16_IterationOrder ==
  /\ \A i \in DOMAIN visited : visited[i] = ExpectedVisit(i - 1)
  /\ \A i \in DOMAIN visited :
       (i + 1 \in DOMAIN visited
        /\ visited[i + 1][2] = visited[i][2] + 1
        /\ visited[i + 1][3] = visited[i][3])
         => visited[i + 1][1] = visited[i][1]

\* a finished call over a 2 x 2 x 2 tile: column 1 was walked from row 1 to
\* row 0 for k = 0, and the second k started again at column 0, row 0
C16_Witness ==
  /\ pc = "done"
  /\ shape = [kM |-> 2, kN |-> 2, kK |-> 2]
  /\ visited[2] = <<1, 0, 0>> /\ visited[3] = <<1, 1, 0>>
  /\ visited[4] = <<0, 1, 0>> /\ visited[5] = <<0, 0, 1>>

\* the flat offsets of the step at the current loop counters
StepOffsets ==
  LET ms == m_serpentine(shape.kM, loop_n, loop_m)
  IN [ mk |-> Offset(layouts.A, shape.kM, shape.kK, ms, loop_k),
       kn |-> Offset(layouts.B, shape.kK, shape.kN, loop_k, loop_n),
       mn |-> Offset(layouts.C, shape.kM, shape.kN, ms, loop_n) ]

\* the row and column of the cell the step at the current loop counters is for
StepCell ==
  << IF loop_n % 2 = 1 THEN shape.kM - 1 - loop_m ELSE loop_m, loop_n >>

\* C17: no step of the call changes fragment A, B or C; a loop step uses
\* flat offsets inside the fragments (below M*K for A, K*N for B, M*N for D),
\* leaves every cell of D other than D(m,n) as it was, and the value it
\* writes to D(m,n) is determined by A(m,k), B(k,n) and the old D(m,n).
C17_FrameAndBounds ==
  [][ /\ frag_A' = frag_A /\ frag_B' = frag_B /\ frag_C' = frag_C
      /\ pc = "loop" =>
           /\ StepOffsets.mk \in 0 .. shape.kM * shape.kK - 1
           /\ StepOffsets.kn \in 0 .. shape.kK * shape.kN - 1
           /\ StepOffsets.mn \in 0 .. shape.kM * shape.kN - 1
           /\ \A o \in DOMAIN frag_D :
                Coord(layouts.C, shape.kM, shape.kN, o) # StepCell
                  => frag_D'[o] = frag_D[o]
           /\ \A o \in DOMAIN frag_D :
                Coord(layouts.C, shape.kM, shape.kN, o) = StepCell
                  => frag_D'[o] = frag_D[o]
                       + Contribution(binary, frag_A[StepOffsets.mk],
                                      frag_B[StepOffsets.kn])
    ]_vars

\* a loop step on a tile with several cells has changed only its own cell
C17_Witness ==
  /\ pc = "loop"
  /\ Len(visited) = 2
  /\ shape.kM = 2 /\ shape.kN = 2
  /\ layouts.C = "ColumnMajor"
  /\ CellD(1, 0) # CellC(1, 0)
  /\ CellD(0, 1) = CellC(0, 1) /\ CellD(1, 1) = CellC(1, 1)

(***************************************************************************)
(* Properties of the accumulate in place.                                  *)
(***************************************************************************)
Computed(ev) == Cardinality({ i \in DOMAIN ev : ev[i][1] = "compute" })

\* the K extent covered by the first n tiles
CoveredK(n) ==
  IF n * ml_cfg.kK < ml_cfg.gemmK THEN n * ml_cfg.kK ELSE ml_cfg.gemmK

\* acc is the source accumulator plus every contribution of k below upto
TotalUpTo(acc, upto) ==
  \A mn \in MainCells :
    At(acc, ml_cfg.layouts.C, ml_cfg.kM, ml_cfg.kN, mn[1], mn[2])
      = At(src_accum, ml_cfg.layouts.C, ml_cfg.kM, ml_cfg.kN, mn[1], mn[2])
        + ReferenceSum(mn[1], mn[2], upto - 1)

\* sum over k in 0 .. j of the contributions of one staged tile to cell (m, n)
RECURSIVE StagedSum(_, _, _, _)
StagedSum(stage, m, n, j) ==
  IF j < 0 THEN 0
  ELSE StagedSum(stage, m, n, j - 1)
       + Contribution(ml_cfg.binary,
                      At(stage.A, ml_cfg.layouts.A, ml_cfg.kM, ml_cfg.kK, m, j),
                      At(stage.B, ml_cfg.layouts.B, ml_cfg.kK, ml_cfg.kN, j, n))

\* C18: every accumulate of the mainloop, called with d and c the same
\* fragment, leaves d_old[m,n] plus the sum over k of the staged tile's
\* predicated contributions, which is what the call yields with a separate
\* copy of the old accumulator as c; and after it the accumulator is the
\* initial accumulator plus the contributions of all tiles consumed so far.
C18_InPlaceAccumulate ==
  [][ Computed(events') > Computed(events) =>
        LET stage == smem[ReadStage(write_stage)]
        IN /\ accum' = MmaGeneric(TileMmaShape(ml_cfg), ml_cfg.binary,
                                  ml_cfg.layouts, stage.A, stage.B, accum,
                                  StaleFrag(ml_cfg.kM * ml_cfg.kN))
           /\ \A mn \in MainCells :
                At(accum', ml_cfg.layouts.C, ml_cfg.kM, ml_cfg.kN, mn[1], mn[2])
                  = At(accum, ml_cfg.layouts.C, ml_cfg.kM, ml_cfg.kN, mn[1], mn[2])
                    + StagedSum(stage, mn[1], mn[2], ml_cfg.kK - 1)
           /\ TotalUpTo(accum', CoveredK(Computed(events')))
    ]_vars

\* two K-tiles have been accumulated in place, each adding to cell (0, 0)
C18_Witness ==
  /\ ml_phase = "done"
  /\ ml_cfg.gemmK = 4 /\ ml_cfg.kK = 2
  /\ Computed(events) = 2
  /\ Contribution(ml_cfg.binary, glob_A[<<0, 0>>], glob_B[<<0, 0>>]) # 0
  /\ Contribution(ml_cfg.binary, glob_A[<<0, 2>>], glob_B[<<2, 0>>]) # 0
  /\ TotalUpTo(accum, 4)
  /\ accum # src_accum

=============================================================================
